---- MODULE Spec2Model ----
(***************************************************************************)
(* Rescue-suitability scoring engine of the animal controller              *)
(* (src/backend/controllers/animalController.js).  The file holds two      *)
(* generations of the controller: getRescueCandidates with scoreCache and  *)
(* the periodic cleanupCache, and getRescueSuitableAnimals with            *)
(* rescueScoresCache.  Both are modelled, each with its own cache.         *)
(*                                                                         *)
(* Numbers.  A sub-score s in [0,1] is the integer s * One; a weight w is  *)
(* the integer 100 * w; a total score t is the integer t * 100 * One.      *)
(* One is a multiple of both lower age bounds (26 and 20) and of 20, so    *)
(* every quotient the code forms on whole-week ages is exact.  IEEE        *)
(* rounding is not modelled.  NaN is the JavaScript NaN.                   *)
(* Strings that the code inspects character by character (breeds, regex    *)
(* sources) are sequences of one-character strings.                        *)
(***************************************************************************)
EXTENDS Integers, Sequences, FiniteSets, TLC

\* ------------------------------------------------------------------ bounds
MaxCalls == 2
MaxTicks == 2
MaxBatch == 2
MaxHistory == 2

\* ------------------------------------------------- JavaScript value model
\* NaN: the result of arithmetic on undefined (value * undefined, undefined - max).
NaN == -1
\* A property that is absent from an object reads as undefined.
Undefined == <<"undefined">>
UndefinedStr == "undefined"

One == 26 * 100

NumAdd(a, b) == IF a = NaN \/ b = NaN THEN NaN ELSE a + b
NumMul(a, b) == IF a = NaN \/ b = NaN THEN NaN ELSE a * b
\* a >= b on numbers: every comparison with NaN is false.
NumGte(a, b) == a # NaN /\ b # NaN /\ a >= b
NumLt(a, b) == a # NaN /\ b # NaN /\ a < b
\* Math.max(0, x), Math.min(1, x): NaN if x is NaN.
MathMax0(x) == IF x = NaN THEN NaN ELSE IF x < 0 THEN 0 ELSE x
MathMin1(x) == IF x = NaN THEN NaN ELSE IF x > One THEN One ELSE x

\* ----------------------------------------------------------------- strings
UpperChars == <<"A","B","C","D","E","F","G","H","I","J","K","L","M",
                "N","O","P","Q","R","S","T","U","V","W","X","Y","Z">>
LowerChars == <<"a","b","c","d","e","f","g","h","i","j","k","l","m",
                "n","o","p","q","r","s","t","u","v","w","x","y","z">>

LowerChar(c) ==
    IF \E i \in 1..Len(UpperChars) : UpperChars[i] = c
    THEN LowerChars[CHOOSE i \in 1..Len(UpperChars) : UpperChars[i] = c]
    ELSE c

\* String.prototype.toLowerCase
toLowerCase(s) == [i \in 1..Len(s) |-> LowerChar(s[i])]

\* String.prototype.trim
trim(s) ==
    LET keep == {i \in 1..Len(s) : s[i] # " "}
    IN  IF keep = {} THEN <<>>
        ELSE LET lo == CHOOSE i \in keep : \A j \in keep : i <= j
                 hi == CHOOSE i \in keep : \A j \in keep : i >= j
             IN  SubSeq(s, lo, hi)

\* String.prototype.slice(1, -2)
slice_1_m2(s) == SubSeq(s, 2, Len(s) - 2)

\* A regular expression /source/i whose source holds no metacharacter.
Regex(src) == [source |-> src, flags |-> <<"i">>]

\* RegExp.prototype.toString: "/" + source + "/" + flags
RegexToString(p) == <<"/">> \o p.source \o <<"/">> \o p.flags

\* RegExp.prototype.test / String.prototype.match for a literal source with
\* the i flag: the source occurs in s, letter case ignored.
RegexTest(p, s) ==
    LET t == toLowerCase(s)
        q == toLowerCase(p.source)
    IN  \E i \in 1..(Len(t) - Len(q) + 1) : SubSeq(t, i, i + Len(q) - 1) = q

s_lab == <<"l","a","b">>
s_chesa == <<"c","h","e","s","a">>
s_newf == <<"n","e","w","f">>
s_german == <<"g","e","r","m","a","n">>
s_mala == <<"m","a","l","a">>
s_old_english == <<"o","l","d"," ","e","n","g","l","i","s","h">>
s_husk == <<"h","u","s","k">>
s_rott == <<"r","o","t","t">>
s_golden == <<"g","o","l","d","e","n">>
s_blood == <<"b","l","o","o","d">>
s_dober == <<"d","o","b","e","r">>

\* ------------------------------------------------------------ configuration
RescueTypes == {"Water", "Mountain", "Disaster"}

\* Property names every object literal inherits from Object.prototype.
InheritedKeys == {"constructor"}

\* Mutant of the configuration: the age range of Disaster turned around.
RESCUE_CONFIG_RangeReversed ==
    [Water |-> [breeds |-> <<Regex(s_lab), Regex(s_chesa), Regex(s_newf)>>,
                sex |-> "Intact Female", ageRange |-> <<26, 156>>],
     Mountain |-> [breeds |-> <<Regex(s_german), Regex(s_mala), Regex(s_old_english),
                                Regex(s_husk), Regex(s_rott)>>,
                   sex |-> "Intact Male", ageRange |-> <<26, 156>>],
     Disaster |-> [breeds |-> <<Regex(s_german), Regex(s_golden), Regex(s_blood),
                                Regex(s_dober), Regex(s_rott)>>,
                   sex |-> "Intact Male", ageRange |-> <<300, 20>>]]

RESCUE_CONFIG ==
    [Water |-> [breeds |-> <<Regex(s_lab), Regex(s_chesa), Regex(s_newf)>>,
                sex |-> "Intact Female", ageRange |-> <<26, 156>>],
     Mountain |-> [breeds |-> <<Regex(s_german), Regex(s_mala), Regex(s_old_english),
                                Regex(s_husk), Regex(s_rott)>>,
                   sex |-> "Intact Male", ageRange |-> <<26, 156>>],
     Disaster |-> [breeds |-> <<Regex(s_german), Regex(s_golden), Regex(s_blood),
                                Regex(s_dober), Regex(s_rott)>>,
                   sex |-> "Intact Male", ageRange |-> <<20, 300>>]]

RESCUE_TYPE_FILTERS ==
    [Water |-> <<[breed |-> Regex(s_lab)], [breed |-> Regex(s_chesa)],
                 [breed |-> Regex(s_newf)]>>,
     Mountain |-> <<[breed |-> Regex(s_german)], [breed |-> Regex(s_mala)],
                    [breed |-> Regex(s_old_english)], [breed |-> Regex(s_husk)],
                    [breed |-> Regex(s_rott)]>>,
     Disaster |-> <<[breed |-> Regex(s_german)], [breed |-> Regex(s_golden)],
                    [breed |-> Regex(s_blood)], [breed |-> Regex(s_dober)],
                    [breed |-> Regex(s_rott)]>>]

RESCUE_TYPE_REQUIREMENTS ==
    [Water |-> [sex |-> "Intact Female", minAge |-> 26, maxAge |-> 156],
     Mountain |-> [sex |-> "Intact Male", minAge |-> 26, maxAge |-> 156],
     Disaster |-> [sex |-> "Intact Male", minAge |-> 20, maxAge |-> 300]]

SCORING_WEIGHTS ==
    [breedMatch |-> 35, ageMatch |-> 25, sexMatch |-> 20, healthScore |-> 20]

\* SCORING_WEIGHTS[k]: undefined for a key the object does not have; a product
\* with undefined is NaN.
WeightOf(k) == IF k \in DOMAIN SCORING_WEIGHTS THEN SCORING_WEIGHTS[k] ELSE NaN

TTL == 300000
CACHE_TTL == 5 * 60 * 1000
\* MIN_SCORE 0.6, and the literal 0.6 of getRescueSuitableAnimals
MIN_SCORE == 60 * One

\* obj[k] of an object literal: an own property, a property inherited from
\* Object.prototype (truthy, none of the configuration fields), or undefined.
Truthy(obj, k) == k \in DOMAIN obj \/ k \in InheritedKeys

\* ------------------------------------------------------------------ animals
\* A document of the animal collection, as the controllers read it.  The first
\* controller reads sex_upon_outcome and age_upon_outcome_in_weeks, the second
\* reads sex and age; a field the document lacks reads as undefined.
Animal(id, breed, sexOut, weeks, sex, age, history) ==
    [id |-> id, breed |-> breed, sex_upon_outcome |-> sexOut,
     age_upon_outcome_in_weeks |-> weeks, sex |-> sex, age |-> age,
     medicalHistory |-> history]

\* ------------------------------------------- first controller: sub-scores
deductions == [surgery |-> 20 * 26, chronic |-> 30 * 26, injury |-> 15 * 26]

RECURSIVE SumDeductions(_)
\* medicalHistory.reduce((sum, c) => sum + (deductions[c] || 0), 0)
SumDeductions(h) ==
    IF h = <<>> THEN 0
    ELSE (IF Head(h) \in DOMAIN deductions THEN deductions[Head(h)] ELSE 0)
         + SumDeductions(Tail(h))

\* Mutant of the health scorer: an absent history scores 0.
calculateHealthScoreNoDefault(medicalHistory) ==
    IF medicalHistory = Undefined THEN 0
    ELSE MathMax0(One - SumDeductions(medicalHistory))

\* calculateHealthScore = (medicalHistory = []) => Math.max(0, 1 - totalDeduction)
calculateHealthScore(medicalHistory) ==
    LET h == IF medicalHistory = Undefined THEN <<>> ELSE medicalHistory
    IN  MathMax0(One - SumDeductions(h))

\* breed.toLowerCase() throws a TypeError when breed is undefined.
BreedThrows(breed) == breed = Undefined

calculateBreedMatch(breed, breedPatterns) ==
    LET cleanBreed == trim(toLowerCase(breed))
        exactMatch == \E i \in 1..Len(breedPatterns) :
                          /\ RegexTest(breedPatterns[i], cleanBreed)
                          /\ cleanBreed = slice_1_m2(RegexToString(breedPatterns[i]))
    IN  IF exactMatch THEN One
        ELSE IF \E i \in 1..Len(breedPatterns) : RegexTest(breedPatterns[i], cleanBreed)
             THEN 7 * 260 ELSE 0

\* Mutant of the age scorer: the distance is divided by the upper bound.
calculateAgeMatchByMax(age, range) ==
    LET min == range[1]
        max == range[2]
    IN  IF NumGte(age, min) /\ NumGte(max, age) THEN One
        ELSE LET distance == IF age < min THEN min - age ELSE age - max
             IN  MathMax0(One - (distance * One) \div max)

calculateAgeMatch(age, range) ==
    LET min == range[1]
        max == range[2]
    IN  IF NumGte(age, min) /\ NumGte(max, age) THEN One
        ELSE LET distance == IF age = NaN THEN NaN
                             ELSE IF age < min THEN min - age ELSE age - max
             IN  IF distance = NaN THEN NaN
                 ELSE MathMax0(One - (distance * One) \div min)

\* calculateRescueScore: the four sub-scores, or a ScoringError when any
\* sub-score function throws.
calculateRescueScore(animal, rescueType) ==
    LET config == RESCUE_CONFIG[rescueType]
    IN  IF BreedThrows(animal.breed)
        THEN [ok |-> FALSE, error |-> "ScoringError"]
        ELSE [ok |-> TRUE,
              scores |-> [breed |-> calculateBreedMatch(animal.breed, config.breeds),
                          age |-> calculateAgeMatch(animal.age_upon_outcome_in_weeks,
                                                    config.ageRange),
                          sex |-> IF animal.sex_upon_outcome = config.sex THEN One ELSE 0,
                          health |-> calculateHealthScore(animal.medicalHistory)]]

\* Object.entries(scores): insertion order of the object literal.
ScoreKeys == <<"breed", "age", "sex", "health">>

RECURSIVE ReduceWeighted(_, _, _)
\* Object.entries(scores).reduce((total, [key, value]) =>
\*     total + value * SCORING_WEIGHTS[`${key}Match`], 0)
ReduceWeighted(scores, i, total) ==
    IF i > Len(ScoreKeys) THEN total
    ELSE ReduceWeighted(scores, i + 1,
             NumAdd(total, NumMul(scores[ScoreKeys[i]],
                                  WeightOf(ScoreKeys[i] \o "Match"))))

weightedScore(scores) == ReduceWeighted(scores, 1, 0)

\* ------------------------------------------ second controller: sub-scores
Includes(seq, x) == \E i \in 1..Len(seq) : seq[i] = x

calculateHealthScoreOfAnimal(animal) ==
    LET h == animal.medicalHistory
        d(tag, amount) == IF h # Undefined /\ Includes(h, tag) THEN amount ELSE 0
    IN  MathMax0(MathMin1(One - d("surgery", 20 * 26) - d("chronic", 30 * 26)
                              - d("injury", 15 * 26)))

calculateBreedMatchScore(breed, rescueType) ==
    LET filters == RESCUE_TYPE_FILTERS[rescueType]
        exactMatch == \E i \in 1..Len(filters) :
            toLowerCase(slice_1_m2(RegexToString(filters[i].breed))) = toLowerCase(breed)
        partialMatch == \E i \in 1..Len(filters) :
            RegexTest(filters[i].breed, toLowerCase(breed))
    IN  IF exactMatch THEN One ELSE IF partialMatch THEN 7 * 260 ELSE 0

calculateAgeMatchScore(age, requirements) ==
    LET minAge == requirements.minAge
        maxAge == requirements.maxAge
    IN  IF NumGte(age, minAge) /\ NumGte(maxAge, age) THEN One
        ELSE LET distanceFromRange == IF age = NaN THEN NaN
                                      ELSE IF age < minAge THEN minAge - age
                                           ELSE age - maxAge
             IN  IF distanceFromRange = NaN THEN NaN
                 ELSE MathMax0(One - (distanceFromRange * One) \div minAge)

calculateSexMatchScore(sex, requirements) ==
    IF sex = requirements.sex THEN One ELSE 0

totalScore(breedScore, ageScore, sexScore, healthScore) ==
    NumAdd(NumAdd(NumAdd(NumMul(breedScore, SCORING_WEIGHTS.breedMatch),
                         NumMul(ageScore, SCORING_WEIGHTS.ageMatch)),
                  NumMul(sexScore, SCORING_WEIGHTS.sexMatch)),
           NumMul(healthScore, SCORING_WEIGHTS.healthScore))

\* ---------------------------------------------------------- bounded inputs
\* Breeds of the sample documents.
b_Lab_Mix == <<"L","a","b"," ","M","i","x">>

\* The documents the collection can hold, two identifiers, several versions of
\* each document (an update replaces one version by another).
Docs ==
    { \* exact Water breed, required Water sex, age in range, no conditions
      Animal(1, s_lab, "Intact Female", 52, "Intact Female", 52, <<>>),
      Animal(2, s_lab, "Intact Female", 52, "Intact Female", 52, <<>>),
      \* partial Water breed, two conditions
      Animal(2, b_Lab_Mix, "Intact Female", 52, "Intact Female", 52,
             <<"surgery", "chronic">>),
      \* exact Disaster breed, wrong sex, 16 weeks below the lower bound 20,
      \* no medicalHistory field: 0.35 + 0.25 * 0.2 + 0 + 0.20
      Animal(1, s_german, "Intact Female", 4, "Intact Female", 4, Undefined),
      \* a document without breed
      Animal(1, Undefined, "Intact Female", 52, "Intact Female", 52, <<>>),
      \* a document of the Mongoose schema: no sex, age or medicalHistory field
      Animal(1, s_lab, "Intact Female", 52, UndefinedStr, NaN, Undefined) }

SeqsUpTo(S, n) == UNION { [1..k -> S] : k \in 0..n }

\* What Animal.find can resolve to: documents with pairwise distinct _id.
Collections ==
    { c \in SeqsUpTo(Docs, MaxBatch) :
        \A i, j \in 1..Len(c) : i # j => c[i].id # c[j].id }

\* The rescue types of the calls: two configured types (Mountain has the age
\* range of Water and the sex of Disaster), an unknown name and an inherited one.
CallTypes == {"Water", "Disaster", "Space"} \cup InheritedKeys
Requests == {1, 2}
TickSteps == {1, TTL - 1}

\* ------------------------------------------------------------------- state
VARIABLES
    controller,         \* the generation of the controller the process loaded
    clock,              \* Date.now()
    ticks,              \* number of clock advances so far
    calls,              \* number of controller calls so far
    scoreCache,         \* Map of the first controller: key -> result
    rescueScoresCache,  \* Map of the second controller: key -> {score, timestamp}
    lastSweep,          \* time the interval timer of cleanupCache last fired
    pc,                 \* per request: "idle", "find" (await Animal.find),
                        \*   "all" (await Promise.all)
    req,                \* per request in flight: the call and its scored animals
    response,           \* the call that settled last, with its outcome
    scorerInput,        \* the arguments of a sub-score function called on its own
    scorerOutput        \* what that call returned

scorerVars == <<scorerInput, scorerOutput>>

vars == <<controller, clock, ticks, calls, scoreCache, rescueScoresCache,
          lastSweep, pc, req, response, scorerInput, scorerOutput>>

EmptyMap == [k \in {} |-> 0]

\* Mutant of the cache key: the rescue type is left out.
cacheKeyIdOnly(id, rescueType) == <<id, "any">>

\* `${animal._id}-${rescueType}`
cacheKey(id, rescueType) == <<id, rescueType>>

\* Mutant of Map.set: an existing entry is kept.
MapSetIfAbsent(m, k, v) ==
    IF k \in DOMAIN m THEN m
    ELSE [x \in DOMAIN m \cup {k} |-> IF x = k THEN v ELSE m[x]]

MapSet(m, k, v) == [x \in DOMAIN m \cup {k} |-> IF x = k THEN v ELSE m[x]]
MapDelete(m, ks) == [x \in DOMAIN m \ ks |-> m[x]]

\* No sub-score function is called on its own.
NoInput == [fn |-> "none", rescueType |-> "none", breed |-> <<>>, age |-> 0,
            sex |-> "none", medicalHistory |-> <<>>]
NoOutput == [done |-> FALSE, value |-> 0]

NoReq == [handler |-> "none", rescueType |-> "none", animals |-> <<>>,
          now |-> 0, scoredAnimals |-> <<>>, rejected |-> "none",
          hits |-> {}, stale |-> {},
          status |-> "none", error |-> "none", returned |-> <<>>]

\* The file holds the module text of both generations; a process loads one.
Controllers == {"getRescueCandidates", "getRescueSuitableAnimals"}

Init ==
    /\ controller \in Controllers
    /\ clock = 0
    /\ ticks = 0
    /\ calls = 0
    /\ scoreCache = EmptyMap
    /\ rescueScoresCache = EmptyMap
    /\ lastSweep = 0
    /\ pc = [r \in Requests |-> "idle"]
    /\ req = [r \in Requests |-> NoReq]
    /\ response = NoReq
    /\ scorerInput = NoInput
    /\ scorerOutput = NoOutput

\* ------------------------------------------------ filter, sort and return
\* Mutants of the filter: a strict threshold; no filter at all.
KeepsAbove(a) == a.rescueScore # NaN /\ a.rescueScore > MIN_SCORE
KeepsAll(a) == TRUE

\* .filter(animal => animal.rescueScore >= MIN_SCORE)
Keeps(a) == NumGte(a.rescueScore, MIN_SCORE)

RECURSIVE Filter(_)
Filter(s) ==
    IF s = <<>> THEN <<>>
    ELSE IF Keeps(Head(s)) THEN <<Head(s)>> \o Filter(Tail(s)) ELSE Filter(Tail(s))

\* Mutant of the comparator: equal scores count as out of order.
AfterOrEqual(a, b) == b.rescueScore - a.rescueScore >= 0

\* Comparator (a, b) => b.rescueScore - a.rescueScore: a goes after b only when
\* it is positive.
After(a, b) == b.rescueScore - a.rescueScore > 0

RECURSIVE Insert(_, _)
\* Array.prototype.sort is stable: x goes behind every element it does not
\* precede strictly.
Insert(s, x) ==
    IF s = <<>> THEN <<x>>
    ELSE IF After(Head(s), x) THEN <<x>> \o s
         ELSE <<Head(s)>> \o Insert(Tail(s), x)

RECURSIVE Sort(_)
Sort(s) == IF s = <<>> THEN <<>> ELSE Insert(Sort(SubSeq(s, 1, Len(s) - 1)), s[Len(s)])

\* The sub-scores of the bounded documents, evaluated once.
RescueScoreOf == [d \in Docs, t \in RescueTypes |-> calculateRescueScore(d, t)]

\* ------------------------------------------- first controller: the handler
\* buildRescueQuery: "ValidationError" for a type RESCUE_CONFIG does not hold;
\* for an inherited property name the config is truthy and config.breeds.map
\* is a TypeError; otherwise the query is built.
buildRescueQuery(rescueType) ==
    IF ~Truthy(RESCUE_CONFIG, rescueType) THEN "ValidationError"
    ELSE IF rescueType \notin DOMAIN RESCUE_CONFIG THEN "TypeError"
    ELSE "ok"

\* The cache entry a callback found for a document, and its age.
Found(id, entry, now) == [id |-> id, age |-> now - entry.timestamp]

StartMap(cache) ==
    [cache |-> cache, scored |-> <<>>, rejected |-> "none", hits |-> {}, stale |-> {}]

\* Mutant of the expiry test: an entry of age TTL still counts as live.
LiveHitInclusive(cache, key, now) ==
    key \in DOMAIN cache /\ now - cache[key].timestamp <= TTL

\* cached && (now - cached.timestamp < CACHE_CONFIG.TTL)
LiveHit(cache, key, now) == key \in DOMAIN cache /\ now - cache[key].timestamp < TTL

\* { ...animal.toObject(), ...cached }: a key of the cached result replaces the
\* key of the document; toObject() holds no key for an absent field.
Spread(animal, cached) ==
    [animal |->
        [id |-> cached.animal.id,
         breed |-> IF cached.animal.breed # Undefined
                   THEN cached.animal.breed ELSE animal.breed,
         sex_upon_outcome |-> IF cached.animal.sex_upon_outcome # UndefinedStr
                   THEN cached.animal.sex_upon_outcome ELSE animal.sex_upon_outcome,
         age_upon_outcome_in_weeks |-> IF cached.animal.age_upon_outcome_in_weeks # NaN
                   THEN cached.animal.age_upon_outcome_in_weeks
                   ELSE animal.age_upon_outcome_in_weeks,
         sex |-> IF cached.animal.sex # UndefinedStr
                   THEN cached.animal.sex ELSE animal.sex,
         age |-> IF cached.animal.age # NaN THEN cached.animal.age ELSE animal.age,
         medicalHistory |-> IF cached.animal.medicalHistory # Undefined
                   THEN cached.animal.medicalHistory ELSE animal.medicalHistory],
     rescueScore |-> cached.rescueScore,
     scoreComponents |-> cached.scoreComponents,
     timestamp |-> cached.timestamp]

\* The result object of a cache miss of getRescueCandidates.
ComputeResult(animal, rescueType, now) ==
    LET scores == RescueScoreOf[animal, rescueType].scores
    IN  [animal |-> animal,
         rescueScore |-> weightedScore(scores),
         scoreComponents |-> scores,
         timestamp |-> now]

RECURSIVE MapCandidatesTouch(_, _, _, _)
\* Mutant of the map: a cache hit stores the entry again with the time of the
\* call.
MapCandidatesTouch(animals, rescueType, now, st) ==
    IF animals = <<>> THEN st
    ELSE
      LET animal == Head(animals)
          key == cacheKey(animal.id, rescueType)
          next ==
            IF LiveHit(st.cache, key, now)
            THEN [st EXCEPT !.scored = Append(@, Spread(animal, st.cache[key])),
                            !.hits = @ \cup {Found(animal.id, st.cache[key], now)},
                            !.cache = MapSet(st.cache, key,
                                          [st.cache[key] EXCEPT !.timestamp = now])]
            ELSE LET seen == [st EXCEPT !.stale = IF key \in DOMAIN st.cache
                                  THEN @ \cup {Found(animal.id, st.cache[key], now)}
                                  ELSE @]
                 IN  IF ~RescueScoreOf[animal, rescueType].ok
                     THEN [seen EXCEPT !.rejected =
                              IF @ = "none" THEN "ScoringError" ELSE @]
                     ELSE LET result == ComputeResult(animal, rescueType, now)
                          IN  [seen EXCEPT !.cache = MapSet(st.cache, key, result),
                                           !.scored = Append(st.scored, result)]
      IN  MapCandidatesTouch(Tail(animals), rescueType, now, next)

RECURSIVE MapCandidates(_, _, _, _)
\* animals.map(async animal => ...): every callback runs to its end before
\* Promise.all is awaited; a callback that throws leaves a rejected promise and
\* the callbacks after it still run.  st = [cache, scored, rejected, hits,
\* stale]; hits and stale record the branch each callback took: the documents
\* served from the cache and those whose entry had expired, with the entry's age.
MapCandidates(animals, rescueType, now, st) ==
    IF animals = <<>> THEN st
    ELSE
      LET animal == Head(animals)
          key == cacheKey(animal.id, rescueType)
          next ==
            IF LiveHit(st.cache, key, now)
            THEN [st EXCEPT !.scored = Append(@, Spread(animal, st.cache[key])),
                            !.hits = @ \cup {Found(animal.id, st.cache[key], now)}]
            ELSE LET seen == [st EXCEPT !.stale = IF key \in DOMAIN st.cache
                                  THEN @ \cup {Found(animal.id, st.cache[key], now)}
                                  ELSE @]
                 IN  IF ~RescueScoreOf[animal, rescueType].ok
                     THEN [seen EXCEPT !.rejected =
                              IF @ = "none" THEN "ScoringError" ELSE @]
                     ELSE LET result == ComputeResult(animal, rescueType, now)
                          IN  [seen EXCEPT !.cache = MapSet(st.cache, key, result),
                                           !.scored = Append(st.scored, result)]
      IN  MapCandidates(Tail(animals), rescueType, now, next)

\* getRescueCandidates(rescueType), up to the await of Animal.find.
CallCandidates(r, rescueType) ==
    /\ controller = "getRescueCandidates"
    /\ pc[r] = "idle"
    /\ calls < MaxCalls
    /\ calls' = calls + 1
    /\ LET q == buildRescueQuery(rescueType)
           call == [NoReq EXCEPT !.handler = "getRescueCandidates",
                                 !.rescueType = rescueType]
       IN  IF q = "ok"
           THEN /\ pc' = [pc EXCEPT ![r] = "find"]
                /\ req' = [req EXCEPT ![r] = call]
                /\ UNCHANGED response
           ELSE /\ response' = [call EXCEPT !.status = "error", !.error = q]
                /\ UNCHANGED <<pc, req>>
    /\ UNCHANGED scorerVars
    /\ UNCHANGED <<controller, clock, ticks, scoreCache, rescueScoresCache, lastSweep>>

\* Mutant of the scoring phase: the cache writes of a call that fails are undone.
ScoreCandidatesRollback(r, animals) ==
    /\ pc[r] = "find"
    /\ req[r].handler = "getRescueCandidates"
    /\ LET st == MapCandidates(animals, req[r].rescueType, clock, StartMap(scoreCache))
       IN  /\ scoreCache' = IF st.rejected = "none" THEN st.cache ELSE scoreCache
           /\ req' = [req EXCEPT ![r].animals = animals, ![r].now = clock,
                                 ![r].scoredAnimals = st.scored,
                                 ![r].rejected = st.rejected,
                                 ![r].hits = st.hits, ![r].stale = st.stale]
    /\ pc' = [pc EXCEPT ![r] = "all"]
    /\ UNCHANGED scorerVars
    /\ UNCHANGED <<controller, clock, ticks, calls, rescueScoresCache, lastSweep,
                   response>>

\* Animal.find resolves with `animals`; now = Date.now(); the map runs.
ScoreCandidates(r, animals) ==
    /\ pc[r] = "find"
    /\ req[r].handler = "getRescueCandidates"
    /\ LET st == MapCandidates(animals, req[r].rescueType, clock, StartMap(scoreCache))
       IN  /\ scoreCache' = st.cache
           /\ req' = [req EXCEPT ![r].animals = animals, ![r].now = clock,
                                 ![r].scoredAnimals = st.scored,
                                 ![r].rejected = st.rejected,
                                 ![r].hits = st.hits, ![r].stale = st.stale]
    /\ pc' = [pc EXCEPT ![r] = "all"]
    /\ UNCHANGED scorerVars
    /\ UNCHANGED <<controller, clock, ticks, calls, rescueScoresCache, lastSweep,
                   response>>

\* Promise.all settles: the call throws the first rejection, or returns the
\* filtered and sorted list.
ReturnCandidates(r) ==
    /\ pc[r] = "all"
    /\ req[r].handler = "getRescueCandidates"
    /\ response' =
          IF req[r].rejected # "none"
          THEN [req[r] EXCEPT !.status = "error", !.error = req[r].rejected]
          ELSE [req[r] EXCEPT !.status = "ok",
                              !.returned = Sort(Filter(req[r].scoredAnimals))]
    /\ req' = [req EXCEPT ![r] = NoReq]
    /\ pc' = [pc EXCEPT ![r] = "idle"]
    /\ UNCHANGED scorerVars
    /\ UNCHANGED <<controller, clock, ticks, calls, scoreCache, rescueScoresCache,
                   lastSweep>>

\* Mutants of the sweep: the comparison turned around; an entry of age TTL
\* counts as expired.
cleanupCacheReversed ==
    /\ controller = "getRescueCandidates"
    /\ clock - lastSweep >= TTL
    /\ lastSweep' = clock
    /\ scoreCache' = MapDelete(scoreCache,
           {k \in DOMAIN scoreCache : clock - scoreCache[k].timestamp < TTL})
    /\ UNCHANGED scorerVars
    /\ UNCHANGED <<controller, clock, ticks, calls, rescueScoresCache, pc, req,
                   response>>

cleanupCacheInclusive ==
    /\ controller = "getRescueCandidates"
    /\ clock - lastSweep >= TTL
    /\ lastSweep' = clock
    /\ scoreCache' = MapDelete(scoreCache,
           {k \in DOMAIN scoreCache : clock - scoreCache[k].timestamp >= TTL})
    /\ UNCHANGED scorerVars
    /\ UNCHANGED <<controller, clock, ticks, calls, rescueScoresCache, pc, req,
                   response>>

\* cleanupCache, fired by setInterval every TTL milliseconds.
cleanupCache ==
    /\ controller = "getRescueCandidates"
    /\ clock - lastSweep >= TTL
    /\ lastSweep' = clock
    /\ scoreCache' = MapDelete(scoreCache,
           {k \in DOMAIN scoreCache : clock - scoreCache[k].timestamp > TTL})
    /\ UNCHANGED scorerVars
    /\ UNCHANGED <<controller, clock, ticks, calls, rescueScoresCache, pc, req,
                   response>>

\* Time passes.
Tick(d) ==
    /\ ticks < MaxTicks
    /\ ticks' = ticks + 1
    /\ clock' = clock + d
    /\ UNCHANGED scorerVars
    /\ UNCHANGED <<controller, calls, scoreCache, rescueScoresCache, lastSweep,
                   pc, req, response>>

\* ------------------------------------------ second controller: the handler
\* if (!RESCUE_TYPE_REQUIREMENTS[rescueType]) throw new Error('Invalid rescue type')
ValidRescueType(rescueType) == Truthy(RESCUE_TYPE_REQUIREMENTS, rescueType)

\* buildRescueTypeQuery for a type that passed the validation: a query for a
\* configured type; for an inherited property name $or is no array and the
\* fields of the requirements are undefined, which Animal.find rejects.
buildRescueTypeQuery(rescueType) ==
    IF rescueType \in DOMAIN RESCUE_TYPE_FILTERS THEN "ok" ELSE "CastError"

\* Mutant of the expiry test: an entry of age CACHE_TTL still counts as live.
LiveScoreInclusive(cache, key, now) ==
    key \in DOMAIN cache /\ now - cache[key].timestamp <= CACHE_TTL

\* Mutant of the expiry test: the comparison turned around.
LiveScoreReversed(cache, key, now) ==
    key \in DOMAIN cache /\ now - cache[key].timestamp > CACHE_TTL

\* cachedScore && (Date.now() - cachedScore.timestamp) < CACHE_TTL
LiveScore(cache, key, now) ==
    key \in DOMAIN cache /\ now - cache[key].timestamp < CACHE_TTL

\* Mutant of the scoring: the identifier of the document enters the total.
ComputeSuitableById(animal, rescueType) ==
    LET breedScore == calculateBreedMatchScore(animal.breed, rescueType)
        ageScore == calculateAgeMatchScore(animal.age,
                        RESCUE_TYPE_REQUIREMENTS[rescueType])
        sexScore == calculateSexMatchScore(animal.sex,
                        RESCUE_TYPE_REQUIREMENTS[rescueType])
        healthScore == calculateHealthScoreOfAnimal(animal)
    IN  [animal |-> animal,
         rescueScore |-> NumAdd(totalScore(breedScore, ageScore, sexScore, healthScore),
                                animal.id),
         scoreDetails |-> [breedScore |-> breedScore, ageScore |-> ageScore,
                           sexScore |-> sexScore, healthScore |-> healthScore]]

\* The scored animal of a cache miss of getRescueSuitableAnimals.
ComputeSuitable(animal, rescueType) ==
    LET breedScore == calculateBreedMatchScore(animal.breed, rescueType)
        ageScore == calculateAgeMatchScore(animal.age,
                        RESCUE_TYPE_REQUIREMENTS[rescueType])
        sexScore == calculateSexMatchScore(animal.sex,
                        RESCUE_TYPE_REQUIREMENTS[rescueType])
        healthScore == calculateHealthScoreOfAnimal(animal)
    IN  [animal |-> animal,
         rescueScore |-> totalScore(breedScore, ageScore, sexScore, healthScore),
         scoreDetails |-> [breedScore |-> breedScore, ageScore |-> ageScore,
                           sexScore |-> sexScore, healthScore |-> healthScore]]

\* The scored animals of the bounded documents, evaluated once.
SuitableOf ==
    [d \in {x \in Docs : ~BreedThrows(x.breed)}, t \in RescueTypes |->
        ComputeSuitable(d, t)]

RECURSIVE MapSuitable(_, _, _, _)
\* animals.map(async (animal) => ...) of getRescueSuitableAnimals.
MapSuitable(animals, rescueType, now, st) ==
    IF animals = <<>> THEN st
    ELSE
      LET animal == Head(animals)
          key == cacheKey(animal.id, rescueType)
          next ==
            IF LiveScore(st.cache, key, now)
            THEN [st EXCEPT !.scored = Append(@,
                     [animal |-> animal, rescueScore |-> st.cache[key].score]),
                            !.hits = @ \cup {Found(animal.id, st.cache[key], now)}]
            ELSE LET seen == [st EXCEPT !.stale = IF key \in DOMAIN st.cache
                                  THEN @ \cup {Found(animal.id, st.cache[key], now)}
                                  ELSE @]
                 IN  IF BreedThrows(animal.breed)
                     THEN [seen EXCEPT !.rejected =
                              IF @ = "none" THEN "TypeError" ELSE @]
                     ELSE LET result == SuitableOf[animal, rescueType]
                          IN  [seen EXCEPT
                                 !.cache = MapSet(st.cache, key,
                                     [score |-> result.rescueScore, timestamp |-> now]),
                                 !.scored = Append(st.scored, result)]
      IN  MapSuitable(Tail(animals), rescueType, now, next)

\* getRescueSuitableAnimals(rescueType), up to the await of Animal.find.
CallSuitable(r, rescueType) ==
    /\ controller = "getRescueSuitableAnimals"
    /\ pc[r] = "idle"
    /\ calls < MaxCalls
    /\ calls' = calls + 1
    /\ LET call == [NoReq EXCEPT !.handler = "getRescueSuitableAnimals",
                                 !.rescueType = rescueType]
       IN  IF ValidRescueType(rescueType)
           THEN /\ pc' = [pc EXCEPT ![r] = "find"]
                /\ req' = [req EXCEPT ![r] = call]
                /\ UNCHANGED response
           ELSE /\ response' = [call EXCEPT !.status = "error",
                                            !.error = "Invalid rescue type"]
                /\ UNCHANGED <<pc, req>>
    /\ UNCHANGED scorerVars
    /\ UNCHANGED <<controller, clock, ticks, scoreCache, rescueScoresCache, lastSweep>>

\* Animal.find rejects the query of an inherited property name.
FindRejects(r) ==
    /\ pc[r] = "find"
    /\ req[r].handler = "getRescueSuitableAnimals"
    /\ buildRescueTypeQuery(req[r].rescueType) # "ok"
    /\ response' = [req[r] EXCEPT !.status = "error",
                          !.error = buildRescueTypeQuery(req[r].rescueType)]
    /\ req' = [req EXCEPT ![r] = NoReq]
    /\ pc' = [pc EXCEPT ![r] = "idle"]
    /\ UNCHANGED scorerVars
    /\ UNCHANGED <<controller, clock, ticks, calls, scoreCache, rescueScoresCache,
                   lastSweep>>

\* Mutant of the scoring phase: the scores are computed in this step and the
\* cache is not written in it.
ScoreSuitableNoStore(r, animals) ==
    /\ pc[r] = "find"
    /\ req[r].handler = "getRescueSuitableAnimals"
    /\ buildRescueTypeQuery(req[r].rescueType) = "ok"
    /\ LET st == MapSuitable(animals, req[r].rescueType, clock,
                     StartMap(rescueScoresCache))
       IN  req' = [req EXCEPT ![r].animals = animals, ![r].now = clock,
                              ![r].scoredAnimals = st.scored,
                              ![r].rejected = st.rejected,
                              ![r].hits = st.hits, ![r].stale = st.stale]
    /\ pc' = [pc EXCEPT ![r] = "all"]
    /\ UNCHANGED scorerVars
    /\ UNCHANGED <<controller, clock, ticks, calls, scoreCache, rescueScoresCache,
                   lastSweep, response>>

\* Animal.find resolves with `animals`; the map runs.
ScoreSuitable(r, animals) ==
    /\ pc[r] = "find"
    /\ req[r].handler = "getRescueSuitableAnimals"
    /\ buildRescueTypeQuery(req[r].rescueType) = "ok"
    /\ LET st == MapSuitable(animals, req[r].rescueType, clock,
                     StartMap(rescueScoresCache))
       IN  /\ rescueScoresCache' = st.cache
           /\ req' = [req EXCEPT ![r].animals = animals, ![r].now = clock,
                                 ![r].scoredAnimals = st.scored,
                                 ![r].rejected = st.rejected,
                                 ![r].hits = st.hits, ![r].stale = st.stale]
    /\ pc' = [pc EXCEPT ![r] = "all"]
    /\ UNCHANGED scorerVars
    /\ UNCHANGED <<controller, clock, ticks, calls, scoreCache, lastSweep, response>>

\* Promise.all settles: the catch block rethrows, or the filtered and sorted
\* list is returned.
ReturnSuitable(r) ==
    /\ pc[r] = "all"
    /\ req[r].handler = "getRescueSuitableAnimals"
    /\ response' =
          IF req[r].rejected # "none"
          THEN [req[r] EXCEPT !.status = "error", !.error = req[r].rejected]
          ELSE [req[r] EXCEPT !.status = "ok",
                              !.returned = Sort(Filter(req[r].scoredAnimals))]
    /\ req' = [req EXCEPT ![r] = NoReq]
    /\ pc' = [pc EXCEPT ![r] = "idle"]
    /\ UNCHANGED scorerVars
    /\ UNCHANGED <<controller, clock, ticks, calls, scoreCache, rescueScoresCache,
                   lastSweep>>

\* ------------------------------------------------------------ specification
Next ==
    \/ \E r \in Requests, t \in CallTypes : CallCandidates(r, t)
    \/ \E r \in Requests, c \in Collections : ScoreCandidates(r, c)
    \/ \E r \in Requests : ReturnCandidates(r)
    \/ \E r \in Requests, t \in CallTypes : CallSuitable(r, t)
    \/ \E r \in Requests : FindRejects(r)
    \/ \E r \in Requests, c \in Collections : ScoreSuitable(r, c)
    \/ \E r \in Requests : ReturnSuitable(r)
    \/ cleanupCache
    \/ \E d \in TickSteps : Tick(d)

Spec == Init /\ [][Next]_vars

\* ------------------------------------------------------- the storage queries
\* The document satisfies the query of buildRescueQuery: some breed pattern
\* matches ($or of $regex), sex_upon_outcome is the required sex and
\* age_upon_outcome_in_weeks lies in [$gte, $lte].  A field the document lacks
\* matches no condition.
QueryMatches(animal, rescueType) ==
    LET config == RESCUE_CONFIG[rescueType]
    IN  /\ animal.breed # Undefined
        /\ \E i \in DOMAIN config.breeds : RegexTest(config.breeds[i], animal.breed)
        /\ animal.sex_upon_outcome = config.sex
        /\ NumGte(animal.age_upon_outcome_in_weeks, config.ageRange[1])
        /\ NumGte(config.ageRange[2], animal.age_upon_outcome_in_weeks)

\* The same for the query of buildRescueTypeQuery.
TypeQueryMatches(animal, rescueType) ==
    LET requirements == RESCUE_TYPE_REQUIREMENTS[rescueType]
        filters == RESCUE_TYPE_FILTERS[rescueType]
    IN  /\ animal.breed # Undefined
        /\ \E i \in DOMAIN filters : RegexTest(filters[i].breed, animal.breed)
        /\ animal.sex_upon_outcome = requirements.sex
        /\ NumGte(animal.age_upon_outcome_in_weeks, requirements.minAge)
        /\ NumGte(requirements.maxAge, animal.age_upon_outcome_in_weeks)

\* RESCUE_CRITERIA of the model file: breedPattern is an alternation
\* /a|b|c/i, held here as the sequence of its alternatives.
RESCUE_CRITERIA ==
    [Water |-> [sex |-> "Intact Female", ageRange |-> [min |-> 26, max |-> 156],
                breedPattern |-> <<Regex(s_lab), Regex(s_chesa), Regex(s_newf)>>],
     Mountain |-> [sex |-> "Intact Male", ageRange |-> [min |-> 26, max |-> 156],
                   breedPattern |-> <<Regex(s_german), Regex(s_mala),
                                      Regex(s_old_english), Regex(s_husk), Regex(s_rott)>>],
     Disaster |-> [sex |-> "Intact Male", ageRange |-> [min |-> 20, max |-> 300],
                   breedPattern |-> <<Regex(s_german), Regex(s_golden), Regex(s_blood),
                                      Regex(s_dober), Regex(s_rott)>>]]

\* The document is among those findRescueSuitable(rescueType) finds; a
\* category without criteria finds every document.
findRescueSuitable(animal, rescueType) ==
    IF rescueType \notin DOMAIN RESCUE_CRITERIA THEN TRUE
    ELSE
      LET criteria == RESCUE_CRITERIA[rescueType]
      IN  /\ animal.sex_upon_outcome = criteria.sex
          /\ NumGte(animal.age_upon_outcome_in_weeks, criteria.ageRange.min)
          /\ NumGte(criteria.ageRange.max, animal.age_upon_outcome_in_weeks)
          /\ animal.breed # Undefined
          /\ \E i \in DOMAIN criteria.breedPattern :
                 RegexTest(criteria.breedPattern[i], animal.breed)

\* ------------------------------------------- the engine with a warm cache
\* The cache after one call for Water at time 0 over the first sample
\* document has settled; one request slot, one category.
WarmDoc == Animal(1, s_lab, "Intact Female", 52, "Intact Female", 52, <<>>)

WarmInit ==
    /\ controller \in Controllers
    /\ clock = 0
    /\ ticks = 0
    /\ calls = 0
    /\ scoreCache =
          IF controller = "getRescueCandidates"
          THEN MapSet(EmptyMap, cacheKey(WarmDoc.id, "Water"),
                      ComputeResult(WarmDoc, "Water", 0))
          ELSE EmptyMap
    /\ rescueScoresCache =
          IF controller = "getRescueSuitableAnimals"
          THEN MapSet(EmptyMap, cacheKey(WarmDoc.id, "Water"),
                      [score |-> SuitableOf[WarmDoc, "Water"].rescueScore,
                       timestamp |-> 0])
          ELSE EmptyMap
    /\ lastSweep = 0
    /\ pc = [r \in Requests |-> "idle"]
    /\ req = [r \in Requests |-> NoReq]
    /\ response = NoReq
    /\ scorerInput = NoInput
    /\ scorerOutput = NoOutput

WarmNext ==
    \/ CallCandidates(1, "Water")
    \/ \E c \in Collections : ScoreCandidates(1, c)
    \/ ReturnCandidates(1)
    \/ CallSuitable(1, "Water")
    \/ \E c \in Collections : ScoreSuitable(1, c)
    \/ ReturnSuitable(1)
    \/ cleanupCache
    \/ \E d \in TickSteps : Tick(d)

WarmSpec == WarmInit /\ [][WarmNext]_vars

\* ------------------------------------------------- the engine over long times
\* Clock advances of a whole sweep period and more.
LongTickSteps == {TTL, TTL + 1}

RetentionNext ==
    \/ \E r \in Requests, t \in CallTypes : CallCandidates(r, t)
    \/ \E r \in Requests, c \in Collections : ScoreCandidates(r, c)
    \/ \E r \in Requests : ReturnCandidates(r)
    \/ \E r \in Requests, t \in CallTypes : CallSuitable(r, t)
    \/ \E r \in Requests : FindRejects(r)
    \/ \E r \in Requests, c \in Collections : ScoreSuitable(r, c)
    \/ \E r \in Requests : ReturnSuitable(r)
    \/ cleanupCache
    \/ \E d \in LongTickSteps : Tick(d)

RetentionSpec == Init /\ [][RetentionNext]_vars

\* ------------------------------------------- the sub-score functions alone
\* Breed strings: exact terms, partial matches, no match, and spellings that
\* differ from a term in letter case or surrounding blanks only.
b_Labrador_Retriever == <<"L","a","b","r","a","d","o","r"," ",
                          "R","e","t","r","i","e","v","e","r">>
b_Poodle == <<"P","o","o","d","l","e">>
b_LAB == <<"L","A","B">>
b_LAB_padded == <<" "," ","L","A","B"," ">>
b_German_Shepherd == <<"G","e","r","m","a","n"," ","S","h","e","p","h","e","r","d">>
b_Old_English == <<"O","l","d"," ","E","n","g","l","i","s","h">>
b_rott_padded == <<"r","o","t","t"," ">>

Breeds == {s_lab, b_Labrador_Retriever, b_Poodle, b_LAB, b_LAB_padded, b_Lab_Mix,
           s_german, b_German_Shepherd, s_old_english, b_Old_English, b_rott_padded}

\* Ages in weeks: inside, on and outside the bounds of both age ranges.
Ages == {0, 4, 10, 19, 20, 25, 26, 27, 52, 156, 157, 182, 200, 300, 301, 320, 400}

\* VALID_SEX_VALUES, and a spelling that differs in letter case.
VALID_SEX_VALUES ==
    {"Intact Male", "Intact Female", "Neutered Male", "Spayed Female", "Unknown"}
Sexes == VALID_SEX_VALUES \cup {"intact male"}

\* Medical histories: the three tags the code deducts for and one it ignores,
\* in any order and with repetition.
Conditions == {"surgery", "chronic", "injury", "vaccinated"}
Histories == SeqsUpTo(Conditions, MaxHistory)
                 \cup {<<"surgery", "chronic", "injury">>, <<"injury", "chronic", "surgery">>}

ScorerInputs ==
    {[NoInput EXCEPT !.fn = "breed", !.rescueType = t, !.breed = b] :
        t \in RescueTypes, b \in Breeds}
    \cup {[NoInput EXCEPT !.fn = "age", !.rescueType = t, !.age = a] :
        t \in RescueTypes, a \in Ages}
    \cup {[NoInput EXCEPT !.fn = "sex", !.rescueType = t, !.sex = x] :
        t \in RescueTypes, x \in Sexes}
    \cup {[NoInput EXCEPT !.fn = "health", !.rescueType = "Water", !.medicalHistory = h] :
        h \in Histories}

\* The document that carries the arguments to the function under call.
InputAnimal(in) ==
    Animal(1, in.breed, in.sex, in.age, in.sex, in.age, in.medicalHistory)

\* The breed sub-score as controller c computes it.
BreedScoreOf(c, breed, rescueType) ==
    IF c = "getRescueCandidates"
    THEN calculateBreedMatch(breed, RESCUE_CONFIG[rescueType].breeds)
    ELSE calculateBreedMatchScore(breed, rescueType)

ScorerInit ==
    /\ controller \in Controllers
    /\ clock = 0
    /\ ticks = 0
    /\ calls = 0
    /\ scoreCache = EmptyMap
    /\ rescueScoresCache = EmptyMap
    /\ lastSweep = 0
    /\ pc = [r \in Requests |-> "idle"]
    /\ req = [r \in Requests |-> NoReq]
    /\ response = NoReq
    /\ scorerInput \in ScorerInputs
    /\ scorerOutput = NoOutput

Returns(fn, value) ==
    /\ scorerInput.fn = fn
    /\ ~scorerOutput.done
    /\ scorerOutput' = [done |-> TRUE, value |-> value]
    /\ UNCHANGED <<controller, clock, ticks, calls, scoreCache, rescueScoresCache,
                   lastSweep, pc, req, response, scorerInput>>

ScoreBreed ==
    Returns("breed", BreedScoreOf(controller, scorerInput.breed, scorerInput.rescueType))

ScoreAge ==
    Returns("age",
        IF controller = "getRescueCandidates"
        THEN calculateAgeMatch(scorerInput.age,
                 RESCUE_CONFIG[scorerInput.rescueType].ageRange)
        ELSE calculateAgeMatchScore(scorerInput.age,
                 RESCUE_TYPE_REQUIREMENTS[scorerInput.rescueType]))

ScoreSex ==
    Returns("sex",
        IF controller = "getRescueCandidates"
        THEN calculateRescueScore(InputAnimal([scorerInput EXCEPT !.breed = s_lab]),
                 scorerInput.rescueType).scores.sex
        ELSE calculateSexMatchScore(scorerInput.sex,
                 RESCUE_TYPE_REQUIREMENTS[scorerInput.rescueType]))

ScoreHealth ==
    Returns("health",
        IF controller = "getRescueCandidates"
        THEN calculateHealthScore(scorerInput.medicalHistory)
        ELSE calculateHealthScoreOfAnimal(InputAnimal(scorerInput)))

ScorerNext == ScoreBreed \/ ScoreAge \/ ScoreSex \/ ScoreHealth

ScorerSpec == ScorerInit /\ [][ScorerNext]_vars

\* ======================================================== checked properties
Range(s) == {s[i] : i \in DOMAIN s}

\* The calls whose scoring phase has run: those awaiting Promise.all and the
\* call that settled last.
ScoredCalls ==
    {req[r] : r \in {q \in Requests : pc[q] = "all"}}
        \cup (IF response.status = "none" THEN {} ELSE {response})

HitIds(c) == {h.id : h \in c.hits}
StaleIds(c) == {h.id : h \in c.stale}

\* The scored animals of call c that were computed in c (cache misses).
ComputedIn(c) == {x \in Range(c.scoredAnimals) : x.animal.id \notin HitIds(c)}

\* breed, age, sex, health sub-scores of a computed scored animal.
SubScores(x) ==
    IF "scoreDetails" \in DOMAIN x
    THEN <<x.scoreDetails.breedScore, x.scoreDetails.ageScore,
           x.scoreDetails.sexScore, x.scoreDetails.healthScore>>
    ELSE <<x.scoreComponents.breed, x.scoreComponents.age,
           x.scoreComponents.sex, x.scoreComponents.health>>

\* 0.35*breed + 0.25*age + 0.20*sex + 0.20*health, in units of 1/(100*One).
SpecTotal(sub) ==
    IF \E i \in 1..4 : sub[i] = NaN THEN NaN
    ELSE 35 * sub[1] + 25 * sub[2] + 20 * sub[3] + 20 * sub[4]

InUnit(x) == x # NaN /\ 0 <= x /\ x <= One
InUnitTotal(x) == x # NaN /\ 0 <= x /\ x <= 100 * One

\* C1: the total score of every animal scored on a cache miss is
\* 0.35*breed + 0.25*age + 0.20*sex + 0.20*health of its sub-scores, so four
\* sub-scores of 1 give a total of exactly 1.
C1_TotalIsWeightedSum ==
    \A c \in ScoredCalls : \A x \in ComputedIn(c) :
        /\ x.rescueScore = SpecTotal(SubScores(x))
        /\ SubScores(x) = <<One, One, One, One>> => x.rescueScore = 100 * One

\* A score that is a number and at least 0.6.
ReachesThreshold(x) == x.rescueScore # NaN /\ x.rescueScore >= 60 * One

\* C2: the returned list holds exactly the scored input animals whose total
\* score is at least 0.6 (0.6 itself included), each once, and no animal that
\* was not in the input.
C2_ExactlyAtLeastThreshold ==
    response.status = "ok" =>
        LET scored == response.scoredAnimals
            ret == response.returned
        IN  /\ \A i \in DOMAIN scored :
                  ReachesThreshold(scored[i]) <=> \E j \in DOMAIN ret : ret[j] = scored[i]
            /\ \A j \in DOMAIN ret : \E i \in DOMAIN scored : ret[j] = scored[i]
            /\ \A j \in DOMAIN ret :
                  \E k \in DOMAIN response.animals :
                      response.animals[k].id = ret[j].animal.id
            /\ Len(ret) = Cardinality({i \in DOMAIN scored : ReachesThreshold(scored[i])})

\* A returned list that holds an animal with total score exactly 0.6 while an
\* animal with a lower total score was dropped.
C2_Witness ==
    /\ response.status = "ok"
    /\ \E x \in Range(response.returned) : x.rescueScore = 60 * One
    /\ \E x \in Range(response.scoredAnimals) :
           /\ x.rescueScore # NaN
           /\ x.rescueScore < 60 * One
           /\ x \notin Range(response.returned)

\* Position of the document with identifier id in the input of call c.
InputPos(c, id) == CHOOSE k \in DOMAIN c.animals : c.animals[k].id = id

\* C3: the returned list is ordered by total score, highest first, and animals
\* with equal total score keep the relative order of the input collection.
C3_SortedStable ==
    response.status = "ok" =>
        \A i, j \in DOMAIN response.returned :
            i < j =>
                LET a == response.returned[i]
                    b == response.returned[j]
                IN  /\ a.rescueScore >= b.rescueScore
                    /\ a.rescueScore = b.rescueScore =>
                           InputPos(response, a.animal.id) < InputPos(response, b.animal.id)

\* Two animals with equal total score returned, the input listing document 2
\* before document 1.
C3_Witness ==
    /\ response.status = "ok"
    /\ Len(response.returned) = 2
    /\ response.returned[1].rescueScore = response.returned[2].rescueScore
    /\ response.animals[1].id = 2
    /\ response.returned[1].animal.id = 2

\* The score a cache miss of call c computes for document a.
FreshScore(c, a) ==
    IF c.handler = "getRescueCandidates"
    THEN weightedScore(RescueScoreOf[a, c.rescueType].scores)
    ELSE SuitableOf[a, c.rescueType].rescueScore

\* Request r runs its scoring phase in this step.
ScoringStep(r) == pc[r] = "find" /\ pc'[r] = "all"

\* C4: a call that finds an entry younger than TTL (300000 ms) for (id, category)
\* returns the score of that entry for the animal and leaves the entry as it
\* is, whatever the fields of the animal are now.
C4_HitReturnsCachedScore ==
    [][\A r \in Requests : ScoringStep(r) =>
        \A i \in DOMAIN req'[r].animals :
            LET a == req'[r].animals[i]
                key == cacheKey(a.id, req[r].rescueType)
            IN  IF controller = "getRescueCandidates"
                THEN (key \in DOMAIN scoreCache
                        /\ clock - scoreCache[key].timestamp < 300000) =>
                     /\ \E x \in Range(req'[r].scoredAnimals) :
                            /\ x.animal.id = a.id
                            /\ x.rescueScore = scoreCache[key].rescueScore
                     /\ key \in DOMAIN scoreCache'
                     /\ scoreCache'[key] = scoreCache[key]
                ELSE (key \in DOMAIN rescueScoresCache
                        /\ clock - rescueScoresCache[key].timestamp < 300000) =>
                     /\ \E x \in Range(req'[r].scoredAnimals) :
                            /\ x.animal.id = a.id
                            /\ x.rescueScore = rescueScoresCache[key].score
                     /\ key \in DOMAIN rescueScoresCache'
                     /\ rescueScoresCache'[key] = rescueScoresCache[key]
    ]_vars

\* A call served an animal from the cache although the fields it was given
\* now score differently.
C4_Witness ==
    \E c \in ScoredCalls : \E x \in Range(c.scoredAnimals) :
        /\ x.animal.id \in HitIds(c)
        /\ LET a == c.animals[InputPos(c, x.animal.id)]
           IN  /\ a.breed # Undefined
               /\ x.rescueScore # FreshScore(c, a)

\* C5: a call that finds an entry of age >= TTL for an animal does not reuse
\* it; the score is computed from the fields the call was given and the entry
\* becomes that score with the time of the call.
C5_ExpiredIsRecomputed ==
    [][\A r \in Requests : ScoringStep(r) =>
        \A i \in DOMAIN req'[r].animals :
            LET a == req'[r].animals[i]
                key == cacheKey(a.id, req[r].rescueType)
                fresh == FreshScore(req[r], a)
            IN  IF controller = "getRescueCandidates"
                THEN (key \in DOMAIN scoreCache
                        /\ clock - scoreCache[key].timestamp >= 300000) =>
                     /\ a.id \notin HitIds(req'[r])
                     /\ a.breed # Undefined =>
                          /\ scoreCache'[key].timestamp = clock
                          /\ scoreCache'[key].rescueScore = fresh
                          /\ scoreCache'[key].animal = a
                          /\ \E x \in Range(req'[r].scoredAnimals) :
                                 x.animal = a /\ x.rescueScore = fresh
                ELSE (key \in DOMAIN rescueScoresCache
                        /\ clock - rescueScoresCache[key].timestamp >= 300000) =>
                     /\ a.id \notin HitIds(req'[r])
                     /\ a.breed # Undefined =>
                          /\ rescueScoresCache'[key] =
                                 [score |-> fresh, timestamp |-> clock]
                          /\ \E x \in Range(req'[r].scoredAnimals) :
                                 x.animal = a /\ x.rescueScore = fresh
    ]_vars

\* A call found an entry of age exactly TTL and computed the score anew.
C5_Witness ==
    \E c \in ScoredCalls : \E h \in c.stale :
        /\ h.age = 300000
        /\ \E x \in ComputedIn(c) : x.animal.id = h.id

\* C6: a call with a category other than Water, Mountain, Disaster fails with
\* the unknown-category error and never reaches the scoring phase (so it
\* computes nothing and writes no cache entry).
C6_UnknownCategoryRejected ==
    /\ (response.status # "none" /\ response.rescueType \notin RescueTypes) =>
           /\ response.status = "error"
           /\ response.error \in {"ValidationError", "Invalid rescue type"}
           /\ response.scoredAnimals = <<>>
    /\ \A r \in Requests : pc[r] = "all" => req[r].rescueType \in RescueTypes

\* C7: a record without breed in the input does not make the call fail; the
\* record is left out and every other record is scored and, if it reaches the
\* threshold, returned.
C7_BadRecordDoesNotBlock ==
    (response.status # "none"
        /\ \E a \in Range(response.animals) : a.breed = Undefined) =>
        /\ response.status = "ok"
        /\ \A a \in Range(response.animals) :
              a.breed # Undefined =>
                  \E x \in Range(response.scoredAnimals) :
                      /\ x.animal.id = a.id
                      /\ ReachesThreshold(x) => x \in Range(response.returned)

\* The health sub-score the controller of call c gives document a.
HealthOf(c, a) ==
    IF c.handler = "getRescueCandidates"
    THEN calculateHealthScore(a.medicalHistory)
    ELSE calculateHealthScoreOfAnimal(a)

\* C8: an animal without medicalHistory is scored without error and its health
\* sub-score is 1, as for an empty list of conditions.
C8_NoHistoryScoresOne ==
    \A c \in ScoredCalls : \A a \in Range(c.animals) :
        (a.medicalHistory = Undefined /\ a.breed # Undefined /\ a.id \notin HitIds(c)) =>
            \E x \in Range(c.scoredAnimals) :
                /\ x.animal = a
                /\ SubScores(x)[4] = One
                /\ SubScores(x)[4] = HealthOf(c, [a EXCEPT !.medicalHistory = <<>>])

\* An animal without medicalHistory was scored on a cache miss.
C8_Witness ==
    \E c \in ScoredCalls : \E x \in ComputedIn(c) :
        x.animal.medicalHistory = Undefined /\ SubScores(x)[4] = One

\* C9: a call whose input is empty, or whose scored animals all stay below the
\* threshold, raises no error and returns the empty list.
C9_EmptyResultIsNoError ==
    (response.status # "none" /\ response.rescueType \in RescueTypes) =>
        /\ response.animals = <<>> =>
               response.status = "ok" /\ response.returned = <<>>
        /\ (response.rejected = "none"
              /\ \A x \in Range(response.scoredAnimals) : ~ReachesThreshold(x)) =>
               response.status = "ok" /\ response.returned = <<>>

\* A call over a non-empty input returned the empty list, an animal with a
\* numeric score below the threshold among its input.
C9_Witness ==
    /\ response.status = "ok"
    /\ response.animals # <<>>
    /\ response.returned = <<>>
    /\ \E x \in Range(response.scoredAnimals) :
           x.rescueScore # NaN /\ x.rescueScore < 60 * One

\* A record with the fields of the data model: breed, sex upon outcome and age
\* in weeks (medicalHistory may be absent).
WellFormed(a) ==
    /\ a.breed # Undefined
    /\ a.sex_upon_outcome # UndefinedStr
    /\ a.age_upon_outcome_in_weeks # NaN

\* C10: for every well-formed record and valid category the four sub-scores
\* and the total score, as returned and as stored in the cache, lie in [0, 1].
C10_ScoresInUnitInterval ==
    /\ \A c \in ScoredCalls : \A x \in ComputedIn(c) :
           WellFormed(x.animal) =>
               /\ \A i \in 1..4 : InUnit(SubScores(x)[i])
               /\ InUnitTotal(x.rescueScore)
    /\ \A k \in DOMAIN scoreCache :
           WellFormed(scoreCache[k].animal) => InUnitTotal(scoreCache[k].rescueScore)

\* ------------------------------------------------ the sub-scores on their own
\* The breed string lower-cased and trimmed.
Normalized(breed) == trim(toLowerCase(breed))

\* The literal terms of the patterns of a category.
LiteralTerms(rescueType) ==
    {RESCUE_CONFIG[rescueType].breeds[i].source :
        i \in DOMAIN RESCUE_CONFIG[rescueType].breeds}

Occurs(q, str) == \E i \in 1..(Len(str) - Len(q) + 1) : SubSeq(str, i, i + Len(q) - 1) = q

\* 1.0 for a literal term, 0.7 for a breed that holds a term, 0.0 otherwise.
SpecBreedScore(breed, rescueType) ==
    LET n == Normalized(breed)
    IN  IF n \in LiteralTerms(rescueType) THEN One
        ELSE IF \E q \in LiteralTerms(rescueType) : Occurs(q, n) THEN 7 * 260
        ELSE 0

ScorerReturned(fn) == scorerInput.fn = fn /\ scorerOutput.done

\* C11: the breed scorer returns 1.0 when the normalized breed is the literal
\* term of a pattern of the profile, else 0.7 when a pattern occurs in the
\* normalized breed, else 0.0.
C11_BreedScoreThreeCases ==
    ScorerReturned("breed") =>
        scorerOutput.value = SpecBreedScore(scorerInput.breed, scorerInput.rescueType)

\* C12: the breed score of a breed string equals the breed score of that
\* string lower-cased and trimmed.
C12_BreedScoreIgnoresCaseAndBlanks ==
    ScorerReturned("breed") =>
        scorerOutput.value =
            BreedScoreOf(controller, Normalized(scorerInput.breed), scorerInput.rescueType)

\* max(0, 1 - distance / min) outside [min, max], 1.0 inside.
SpecAgeScore(age, min, max) ==
    IF min <= age /\ age <= max THEN One
    ELSE LET distance == IF age < min THEN min - age ELSE age - max
             v == One - (distance * One) \div min
         IN  IF v < 0 THEN 0 ELSE v

\* C13: the age scorer returns 1.0 for min <= age <= max, both bounds included,
\* and max(0, 1 - distance/min) outside: for [26, 156], 26 and 156 give 1.0,
\* 10 gives 1 - 16/26 and 200 gives 0.
C13_AgeScore ==
    ScorerReturned("age") =>
        LET range == RESCUE_CONFIG[scorerInput.rescueType].ageRange
        IN  /\ scorerOutput.value = SpecAgeScore(scorerInput.age, range[1], range[2])
            /\ range = <<26, 156>> =>
                 /\ scorerInput.age \in {26, 156} => scorerOutput.value = One
                 /\ scorerInput.age = 10 => scorerOutput.value * 26 = One * (26 - 16)
                 /\ scorerInput.age = 200 => scorerOutput.value = 0

\* The age scorer returned a score strictly between 0 and 1 for an age below
\* the range.
C13_Witness ==
    /\ ScorerReturned("age")
    /\ scorerInput.age < RESCUE_CONFIG[scorerInput.rescueType].ageRange[1]
    /\ 0 < scorerOutput.value /\ scorerOutput.value < One

\* The required sex of a category.
RequiredSex(rescueType) == RESCUE_CONFIG[rescueType].sex

\* C14: the sex sub-score of a scored animal is 1.0 when its sex upon outcome
\* equals the required sex of the category and 0.0 otherwise.
C14_SexScoreBinary ==
    \A c \in ScoredCalls : \A x \in ComputedIn(c) :
        SubScores(x)[3] =
            IF x.animal.sex_upon_outcome = RequiredSex(c.rescueType) THEN One ELSE 0

\* The tags of a history, order and repetition forgotten.
TagsOf(h) == {h[i] : i \in DOMAIN h}

SpecHealthScore(h) ==
    LET v == One - (IF "surgery" \in TagsOf(h) THEN 20 * 26 ELSE 0)
                 - (IF "chronic" \in TagsOf(h) THEN 30 * 26 ELSE 0)
                 - (IF "injury" \in TagsOf(h) THEN 15 * 26 ELSE 0)
    IN  IF v < 0 THEN 0 ELSE IF v > One THEN One ELSE v

\* C15: the health score is 1.0 minus 0.2, 0.3, 0.15 for the presence of
\* surgery, chronic, injury, whatever the order and repetition of the tags.
C15_HealthScoreByPresence ==
    ScorerReturned("health") =>
        scorerOutput.value = SpecHealthScore(scorerInput.medicalHistory)

\* --------------------------------------------------- profiles, races, sweeps
\* The flags of a pattern under which RegExp.prototype.test writes lastIndex.
Stateful(p) == \E i \in DOMAIN p.flags : p.flags[i] \in {"g", "y"}

SweepStep == lastSweep' # lastSweep

\* C18: a call serves a score from the cache only when the entry is younger
\* than TTL at that call, sweep or no sweep before it, and a sweep deletes no
\* entry that is younger than TTL at the time of the sweep.
C18_SweepAndReadAgree ==
    /\ [](\A c \in ScoredCalls : \A h \in c.hits : h.age < 300000)
    /\ [][SweepStep =>
            \A k \in DOMAIN scoreCache :
                clock - scoreCache[k].timestamp < 300000 =>
                    k \in DOMAIN scoreCache' /\ scoreCache'[k] = scoreCache[k]
       ]_vars

\* A call served an entry that was in the cache when a sweep ran.
C18_Witness ==
    /\ lastSweep > 0
    /\ \E c \in ScoredCalls : \E h \in c.hits :
           /\ c.now >= lastSweep
           /\ c.now - h.age < lastSweep

\* C19: a sweep at time t removes exactly the entries with t - timestamp > TTL,
\* adds none and leaves every remaining entry as it was.
C19_SweepRemovesExactlyExpired ==
    [][SweepStep =>
        /\ DOMAIN scoreCache' =
              {k \in DOMAIN scoreCache : ~(clock - scoreCache[k].timestamp > 300000)}
        /\ \A k \in DOMAIN scoreCache' : scoreCache'[k] = scoreCache[k]
    ]_vars

\* A sweep has removed the entry of an animal a settled call computed more
\* than TTL before the sweep.
C19_Witness ==
    /\ lastSweep > 0
    /\ response.status = "ok"
    /\ lastSweep - response.now > 300000
    /\ \E x \in ComputedIn(response) :
           cacheKey(x.animal.id, response.rescueType) \notin DOMAIN scoreCache

\* C20: no cache holds an entry older than 2 * TTL: an entry that is not
\* rewritten is deleted by then, the sweep firing every TTL milliseconds (no
\* sweep is overdue).
C20_EntriesAreEvicted ==
    /\ (clock - lastSweep <= 300000) =>
           \A k \in DOMAIN scoreCache : clock - scoreCache[k].timestamp <= 2 * 300000
    /\ \A k \in DOMAIN rescueScoresCache :
           clock - rescueScoresCache[k].timestamp <= 2 * 300000

\* ------------------------------------------------ frame, atomicity, failure
\* The cache of the controller in use, read uniformly.
CacheKeys == IF controller = "getRescueCandidates"
             THEN DOMAIN scoreCache ELSE DOMAIN rescueScoresCache
EntryTime(k) == IF controller = "getRescueCandidates"
                THEN scoreCache[k].timestamp ELSE rescueScoresCache[k].timestamp
EntryScore(k) == IF controller = "getRescueCandidates"
                 THEN scoreCache[k].rescueScore ELSE rescueScoresCache[k].score

IdsOf(animals) == {animals[i].id : i \in DOMAIN animals}

\* The keys (a.id, c) of the batch request r scores in this step.
BatchKeys(r) == {<<id, req[r].rescueType>> : id \in IdsOf(req'[r].animals)}

\* Outside the keys K the map new is the map old.
SameOutside(old, new, K) ==
    /\ DOMAIN new \subseteq DOMAIN old \cup K
    /\ \A k \in DOMAIN old \ K : k \in DOMAIN new /\ new[k] = old[k]

\* Every animal the call of r computed in this step is stored in this step,
\* with its score and the time of the step.
StoredNow(r) ==
    \A y \in ComputedIn(req'[r]) :
        LET k == <<y.animal.id, req[r].rescueType>>
        IN  IF controller = "getRescueCandidates"
            THEN /\ k \in DOMAIN scoreCache'
                 /\ scoreCache'[k].timestamp = clock
                 /\ scoreCache'[k].rescueScore = y.rescueScore
            ELSE /\ k \in DOMAIN rescueScoresCache'
                 /\ rescueScoresCache'[k].timestamp = clock
                 /\ rescueScoresCache'[k].score = y.rescueScore

\* C21: a call for category c over animals A changes no cache entry other than
\* those keyed (a.id, c) for a in A: every other entry, the same animal under
\* another category and expired entries included, stays as it is.
C21_CallWritesOwnKeysOnly ==
    [][\A r \in Requests : pc'[r] # pc[r] =>
        LET K == IF ScoringStep(r) THEN BatchKeys(r) ELSE {}
        IN  /\ SameOutside(scoreCache, scoreCache', K)
            /\ SameOutside(rescueScoresCache, rescueScoresCache', K)
    ]_vars

\* A call has computed scores while the cache holds an expired entry of an
\* animal that is not in its batch.
C21_Witness ==
    \E c \in ScoredCalls :
        /\ ComputedIn(c) # {}
        /\ \E k \in CacheKeys :
               /\ k[1] \notin IdsOf(c.animals)
               /\ k[2] = c.rescueType
               /\ c.now - EntryTime(k) >= 300000

C25_EveryInputAnimalIsCached ==
    [][\A r \in Requests : (ScoringStep(r) /\ req'[r].rejected = "none") =>
        \A k \in BatchKeys(r) :
            IF controller = "getRescueCandidates"
            THEN /\ k \in DOMAIN scoreCache'
                 /\ clock - scoreCache'[k].timestamp < 300000
            ELSE /\ k \in DOMAIN rescueScoresCache'
                 /\ clock - rescueScoresCache'[k].timestamp < 300000
    ]_vars

\* A call settled without error, dropped an animal with a numeric score below
\* the threshold, and the cache holds the entry written for that animal.
C25_Witness ==
    /\ response.status = "ok"
    /\ Len(response.returned) < Len(response.animals)
    /\ \E x \in ComputedIn(response) :
           /\ x.rescueScore # NaN /\ x.rescueScore < 60 * One
           /\ <<x.animal.id, response.rescueType>> \in CacheKeys
           /\ EntryTime(<<x.animal.id, response.rescueType>>) = response.now

\* C28: a call that fails on one record is not rolled back: the entries it
\* wrote for the records it could score are in the cache when the scoring phase
\* ends and when the call throws, and entries of records outside the batch are
\* unchanged.
C28_FailedCallKeepsItsWrites ==
    [][\A r \in Requests :
        /\ (ScoringStep(r) /\ req'[r].rejected # "none") =>
              /\ StoredNow(r)
              /\ SameOutside(scoreCache, scoreCache', BatchKeys(r))
              /\ SameOutside(rescueScoresCache, rescueScoresCache', BatchKeys(r))
        /\ (pc[r] = "all" /\ pc'[r] = "idle") =>
              scoreCache' = scoreCache /\ rescueScoresCache' = rescueScoresCache
    ]_vars

\* A call failed on a record without breed and the cache holds the entry the
\* call wrote for another record of the batch.
C28_Witness ==
    /\ response.status = "error"
    /\ response.rejected # "none"
    /\ \E x \in ComputedIn(response) :
           /\ <<x.animal.id, response.rescueType>> \in CacheKeys
           /\ EntryTime(<<x.animal.id, response.rescueType>>) = response.now
           /\ EntryScore(<<x.animal.id, response.rescueType>>) = x.rescueScore

\* ------------------------------------------------ storage query and scores
\* The document satisfies the storage query the handler of call c builds, and
\* the criteria of findRescueSuitable.
StorageMatches(c, a) ==
    /\ IF c.handler = "getRescueCandidates"
       THEN QueryMatches(a, c.rescueType) ELSE TypeQueryMatches(a, c.rescueType)
    /\ findRescueSuitable(a, c.rescueType)

\* C23: an animal satisfies the storage query of a category if and only if its
\* breed sub-score is greater than 0 and its age and sex sub-scores are 1.
C23_ScoresRefineQuery ==
    \A c \in ScoredCalls : \A x \in ComputedIn(c) :
        WellFormed(x.animal) =>
            (StorageMatches(c, x.animal) <=>
                (/\ SubScores(x)[1] > 0
                 /\ SubScores(x)[2] = One
                 /\ SubScores(x)[3] = One))

\* C24: a call whose input animals all satisfy the storage query scores every
\* one of them at 0.765 or more and returns as many animals as it was given.
C24_PrefilteredNeverDropped ==
    (response.status = "ok"
        /\ \A a \in Range(response.animals) : StorageMatches(response, a)) =>
        /\ Len(response.returned) = Len(response.animals)
        /\ \A x \in Range(response.scoredAnimals) :
              x.rescueScore # NaN /\ x.rescueScore * 10 >= 765 * One

\* C26: a cache hit leaves the entry as it is, and an entry that a call has
\* served at age h is, whenever it is looked at later, either still the entry
\* computed at t0 = call time - h or one computed at t0 + TTL or later: a hit
\* never moves the timestamp.
C26_HitDoesNotExtendLifetime ==
    /\ [](\A c \in ScoredCalls : \A h \in c.hits :
            LET k == <<h.id, c.rescueType>>
                t0 == c.now - h.age
            IN  k \in CacheKeys =>
                    EntryTime(k) = t0 \/ EntryTime(k) >= t0 + 300000)
    /\ [][\A r \in Requests : ScoringStep(r) =>
            \A h \in req'[r].hits :
                LET k == <<h.id, req[r].rescueType>>
                IN  IF controller = "getRescueCandidates"
                    THEN k \in DOMAIN scoreCache' /\ scoreCache'[k] = scoreCache[k]
                    ELSE /\ k \in DOMAIN rescueScoresCache'
                         /\ rescueScoresCache'[k] = rescueScoresCache[k]
       ]_vars

\* An entry computed at t0 was served by one call at a later time and then
\* computed anew by the next call at t0 + TTL.
C26_Witness ==
    \E c1, c2 \in ScoredCalls : \E h \in c1.hits : \E st \in c2.stale :
        /\ c1.rescueType = c2.rescueType
        /\ h.id = st.id
        /\ h.age > 0
        /\ c1.now - h.age = c2.now - st.age
        /\ st.age = 300000
        /\ \E y \in ComputedIn(c2) : y.animal.id = st.id

\* C27: on a cache hit the animal fields of the scored animal are those of the
\* record the call was given.
C27_HitKeepsCurrentFields ==
    \A c \in ScoredCalls : \A x \in Range(c.scoredAnimals) :
        x.animal.id \in HitIds(c) => x.animal = c.animals[InputPos(c, x.animal.id)]

\* What the caller sees of a returned animal: its fields, its total score and
\* its four sub-scores (none when the object carries none).
ViewOf(x) ==
    [animal |-> x.animal, rescueScore |-> x.rescueScore,
     subScores |-> IF "scoreDetails" \in DOMAIN x \/ "scoreComponents" \in DOMAIN x
                   THEN SubScores(x) ELSE <<>>]

ListOf(c) ==
    LET l == Sort(Filter(c.scoredAnimals))
    IN  [i \in DOMAIN l |-> ViewOf(l[i])]

\* C29: two calls of one category over the same unchanged records return the
\* same list, animals, order, total scores and sub-scores, when the first
\* computed every score and the second took any number of them from the cache.
C29_CacheIsTransparent ==
    \A c1, c2 \in ScoredCalls :
        (/\ c1.rescueType = c2.rescueType
         /\ c1.animals = c2.animals
         /\ c1.rejected = "none" /\ c2.rejected = "none"
         /\ c1.hits = {}
         /\ c1.now <= c2.now) =>
            ListOf(c1) = ListOf(c2)

\* Two documents agree on every field but the identifier.
SameButId(a, b) == [a EXCEPT !.id = 0] = [b EXCEPT !.id = 0]

\* C30: two records that agree on breed, sex, age and medical history get the
\* same sub-scores and total on a cache miss, whatever their identifiers, the
\* times of the calls and the rest of the cache.
C30_ScoreDependsOnScoredFieldsOnly ==
    \A c1, c2 \in ScoredCalls : c1.rescueType = c2.rescueType =>
        \A x \in ComputedIn(c1) : \A y \in ComputedIn(c2) :
            SameButId(x.animal, y.animal) =>
                x.rescueScore = y.rescueScore /\ SubScores(x) = SubScores(y)

\* Two calls at different times, the second with an entry of the first in the
\* cache, computed the same numeric score for two records that differ in
\* their identifier only.
C30_Witness ==
    \E c1, c2 \in ScoredCalls :
        /\ c1.rescueType = c2.rescueType
        /\ c1.now < c2.now
        /\ \E x \in ComputedIn(c1) : \E y \in ComputedIn(c2) :
               /\ x.animal.id # y.animal.id
               /\ SameButId(x.animal, y.animal)
               /\ x.rescueScore = y.rescueScore
               /\ x.rescueScore # NaN
               /\ <<x.animal.id, c1.rescueType>> \in CacheKeys

====
